---- MODULE Spec2Model ----
(***************************************************************************)
(* Model of steamfilter/filter.cpp: the ApiHook code patcher (attach,      *)
(* makeThunk, unhook), bulk removal, and the exported entry points         *)
(* SteamFilter (install / re-bind), FilterUnload and DllMain.              *)
(*                                                                         *)
(* Target code is modelled byte for byte: for every hooked export the      *)
(* eight bytes data[-5] .. data[2] around its entry point `data'.  Index i *)
(* of such a window is the byte at offset i - 6 from the entry point.      *)
(***************************************************************************)
EXTENDS Integers, Sequences, FiniteSets, TLC

(***************************************************************************)
(* Bounds of the model.                                                    *)
(***************************************************************************)
\* how many of the six hooked exports may be anything but an export that
\* starts with the two-byte patch NOP
MaxOddExports == 1
\* how many SteamFilter calls may go past the re-bind test into the wait loop
MaxAttempts == 2
\* how many threads call Meter::operator += at once
MaxThreads == 2
\* how many operator += calls are made in all
MaxAdds == 3
\* the largest byte count one receive call reports
MaxBytes == 1
\* how far the tick count advances
MaxTick == 1
\* how many receive calls of the host are metered
MaxReceives == 2

(***************************************************************************)
(* Code-generation constants, filter.cpp:510-515.                          *)
(***************************************************************************)
PUSH_IMM8 == 106
JMP_LONG == 233
JMP_SHORT == 235
MOV_EDI_EDI == 65419
JMP_SHORT_MINUS5 == 63744 + JMP_SHORT

\* the status SteamFilter returns when the hooks could not be installed:
\* ~ 0UL returned through int
HookFailure == -1

(***************************************************************************)
(* Winsock values the handlers test and report.  32-bit patterns are given *)
(* as the integer in -2^31 .. 2^31 - 1 with the same two's-complement      *)
(* bits, so INADDR_NONE (0xFFFFFFFF) is -1.                                *)
(***************************************************************************)
AF_INET == 2
INADDR_ANY == 0
INADDR_NONE == -1
SOCKET_ERROR == -1
WSAECONNREFUSED == 10061
WSAHOST_NOT_FOUND == 11001
MSG_PEEK == 2

(***************************************************************************)
(* The hook records: the seven global Hook<F> objects, in the order        *)
(* unhookAll visits them; SteamFilter attaches six of them.                *)
(***************************************************************************)
UnhookOrder ==
    << "connect", "gethostbyname", "inet_addr", "recv", "recvfrom",
       "WSARecv", "WSAGetOverlappedResult" >>

AttachOrder ==
    << "connect", "gethostbyname", "recv", "recvfrom",
       "WSARecv", "WSAGetOverlappedResult" >>

Range(s) == { s[i] : i \in DOMAIN s }

Hooks == Range(UnhookOrder)
Attached6 == Range(AttachOrder)

Slot(h) == CHOOSE i \in DOMAIN UnhookOrder : UnhookOrder[i] = h

(***************************************************************************)
(* Address layout of the 32-bit process.  The injected module sits below   *)
(* the target library, so detour - target is negative and wraps.           *)
(***************************************************************************)
\* entry point of export h in the target library (what GetProcAddress yields)
TargetAddr(h) == 1907032064 + 4096 * Slot(h)
\* address of the replacement function for h inside this module
DetourAddr(h) == 268439552 + 64 * Slot(h)
\* address of the global ApiHook object for h; m_thunk lies 20 bytes in
\* (three pointers and the 8-byte m_save)
RecordAddr(h) == 268468224 + 36 * Slot(h)
ThunkAddr(h) == RecordAddr(h) + 20
\* the HMODULE of this module
ThisModule == 268435456

(***************************************************************************)
(* What the target library may hold for a hooked name: an export with one  *)
(* of three prologues, given as the bytes data[-5] .. data[2], or no       *)
(* export of that name at all.                                             *)
(***************************************************************************)
Shapes == { "nop", "push", "frame", "missing" }

ShapeBytes(s) ==
    CASE s = "nop"     -> << 144, 144, 144, 144, 144, 139, 255, 85 >>
      [] s = "push"    -> << 144, 144, 144, 144, 144, 106, 16, 104 >>
      [] s = "frame"   -> << 204, 204, 204, 204, 204, 85, 139, 236 >>
      [] s = "missing" -> << 0, 0, 0, 0, 0, 0, 0, 0 >>

ZeroBytes(n) == [ i \in 1..n |-> 0 ]

\* ApiHook::ApiHook on a zero-initialised global
NewHook ==
    [ m_original |-> 0, m_resume |-> 0, m_hook |-> 0,
      m_save |-> ZeroBytes(8), m_thunk |-> ZeroBytes(16) ]

(***************************************************************************)
(* writeOffset: the four bytes of a 32-bit value, low byte first.  The     *)
(* value is given as the integer in -2^31 .. 2^31 - 1 with the same 32-bit *)
(* two's-complement pattern; & 0xFF and >>= 8 on the pattern are % 256 and *)
(* flooring \div 256 on that integer.                                      *)
(***************************************************************************)
writeOffset(value) ==
    << value % 256, (value \div 256) % 256, (value \div 65536) % 256,
       (value \div 16777216) % 256 >>

\* * (unsigned short *) data, read from a window
ReadShort(m) == m[6] + 256 * m[7]

(***************************************************************************)
(* ApiHook::makeThunk (data, bytes) on record r of hook h: copy the        *)
(* leading bytes, append a long jump, ask for the thunk to be executable.  *)
(* vpOk is VirtualProtect's answer.  Yields the record with m_resume set   *)
(* to the returned FARPROC, as its one caller assigns it.                  *)
(***************************************************************************)
ThunkBytes(old, m, bytes, off) ==
    [ i \in 1..16 |->
        IF i <= bytes THEN m[5 + i]
        ELSE IF i = bytes + 1 THEN JMP_LONG
        ELSE IF i <= bytes + 5 THEN off[i - bytes - 1]
        ELSE old[i] ]

makeThunk(r, m, h, address, bytes, vpOk) ==
    [ r EXCEPT
        !.m_thunk = ThunkBytes(r.m_thunk, m, bytes,
                               writeOffset(ThunkAddr(h) - address)),
        !.m_resume = IF vpOk THEN ThunkAddr(h) ELSE 0 ]

(***************************************************************************)
(* ApiHook::attach (address, hook) on record r of hook h, m the window at  *)
(* address.  e.thunkOk and e.protectOk are the answers of the two          *)
(* VirtualProtect calls.  Yields the record, the window and the result.    *)
(***************************************************************************)
\* filter.cpp:588-602
attachSave(r, m, address, hook) ==
    [ r EXCEPT !.m_hook = hook, !.m_original = address,
               !.m_save = m, !.m_resume = 0 ]

\* filter.cpp:604-613, the choice of the resume point
attachResume(r, m, h, address, e) ==
    IF ReadShort(m) = MOV_EDI_EDI THEN [ r EXCEPT !.m_resume = address + 2 ]
    ELSE IF m[6] = PUSH_IMM8 THEN makeThunk(r, m, h, address, 2, e.thunkOk)
    ELSE r

\* the test of the prologue as it would be if push ebp were taken as well
RecognisedFrame(m) ==
    ReadShort(m) = MOV_EDI_EDI \/ m[6] = PUSH_IMM8 \/ m[6] = ShapeBytes("frame")[6]

\* filter.cpp:604-613, whether the prologue was recognised
Recognised(m) == ReadShort(m) = MOV_EDI_EDI \/ m[6] = PUSH_IMM8

\* filter.cpp:631-633, the bytes written
PatchBytes(m, off) ==
    [ i \in 1..8 |->
        IF i = 1 THEN JMP_LONG
        ELSE IF i <= 5 THEN off[i - 1]
        ELSE IF i = 6 THEN JMP_SHORT_MINUS5 % 256
        ELSE IF i = 7 THEN JMP_SHORT_MINUS5 \div 256
        ELSE m[i] ]

attach(r, m, h, address, hook, e) ==
    IF address = 0 THEN [ rec |-> r, mem |-> m, ok |-> FALSE ]
    ELSE IF ~ Recognised(m) \/ ~ e.protectOk
      THEN [ rec |-> attachResume(attachSave(r, m, address, hook), m, h, address, e),
             mem |-> m, ok |-> FALSE ]
    ELSE [ rec |-> attachResume(attachSave(r, m, address, hook), m, h, address, e),
           mem |-> PatchBytes(m, writeOffset(hook - address)),
           ok |-> TRUE ]

(***************************************************************************)
(* ApiHook::attach (hook, lib, name): exported is whether GetProcAddress   *)
(* finds the name in the library.                                          *)
(***************************************************************************)
ClearResume(a) == [ a EXCEPT !.rec.m_resume = 0 ]

attachChecked(a) == IF a.ok THEN a ELSE ClearResume(a)

attachByName(r, m, h, exported, e) ==
    IF ~ exported
      THEN [ rec |-> [ r EXCEPT !.m_resume = 0 ], mem |-> m, ok |-> FALSE ]
    ELSE attachChecked(attach(r, m, h, TargetAddr(h), DetourAddr(h), e))

(***************************************************************************)
(* ApiHook::unhook.  The memcpy writes 7 bytes at m_original - 5; it       *)
(* raises an access violation when the target is no longer mapped.  The    *)
(* __finally block clears the record while the exception unwinds; it does  *)
(* not stop the exception, so `fault' tells the caller it is propagating.  *)
(***************************************************************************)
RestoreBytes(m, save) == [ i \in 1..8 |-> IF i <= 7 THEN save[i] ELSE m[i] ]

unhook(r, m, mapped) ==
    IF r.m_resume = 0 THEN [ rec |-> r, mem |-> m, fault |-> FALSE ]
    ELSE [ rec |-> [ r EXCEPT !.m_original = 0, !.m_resume = 0 ],
           mem |-> IF mapped THEN RestoreBytes(m, r.m_save) ELSE m,
           fault |-> ~ mapped ]

(***************************************************************************)
(* unhookAll: unhook the seven records in turn.  An exception raised by    *)
(* one unhook leaves the function at once, so the records after it are not *)
(* visited.  H and M map every hook to its record and its code window;     *)
(* every unhook touches only its own record and window.                    *)
(***************************************************************************)
FirstOf(S, n) == IF S = {} THEN n + 1 ELSE CHOOSE i \in S : \A j \in S : i <= j

Upto(order, stop) == { order[i] : i \in { j \in DOMAIN order : j <= stop } }

unhookMerge(H, M, U, stop) ==
    [ hk  |-> [ h \in Hooks |->
                  IF h \in Upto(UnhookOrder, stop) THEN U[h].rec ELSE H[h] ],
      mem |-> [ h \in Hooks |->
                  IF h \in Upto(UnhookOrder, stop) THEN U[h].mem ELSE M[h] ],
      fault |-> stop <= Len(UnhookOrder) ]

unhookEach(H, M, U) ==
    unhookMerge(H, M, U,
        FirstOf({ i \in DOMAIN UnhookOrder : U[UnhookOrder[i]].fault },
                Len(UnhookOrder)))

unhookAll(H, M, mapped) ==
    unhookEach(H, M, [ h \in Hooks |-> unhook(H[h], M[h], mapped) ])

(***************************************************************************)
(* removeHook: bulk removal unless the connect hook is absent.             *)
(***************************************************************************)
removeHook(H, M, mapped) ==
    IF H["connect"].m_resume = 0 THEN [ hk |-> H, mem |-> M, fault |-> FALSE ]
    ELSE unhookAll(H, M, mapped)

(***************************************************************************)
(* The rule engine (filterrule.h) is a collaborator of this file: install  *)
(* either accepts an address specification and replaces the rule set, or   *)
(* rejects it.                                                             *)
(***************************************************************************)
AddrSpecs == { "203.0.113.7", "not-an-address" }

Accepts(address) == address # "not-an-address"

RulesInstall(rs, address) ==
    IF Accepts(address) THEN [ rules |-> << address >>, ok |-> TRUE ]
    ELSE [ rules |-> rs, ok |-> FALSE ]

(***************************************************************************)
(* setFilter: configure the rules and, when that worked, append the        *)
(* black-hole DNS rule.  Yields the rule set and the int result.           *)
(***************************************************************************)
setFilterAppend(i) ==
    [ rules |-> IF i.ok THEN Append(i.rules, "content?.steampowered.com=")
                ELSE i.rules,
      result |-> IF i.ok THEN 1 ELSE 0 ]

setFilter(rs, address) == setFilterAppend(RulesInstall(rs, address))

(***************************************************************************)
(* What VirtualProtect answers during one run of the attach chain: it      *)
(* fails on the target of hook e.protectFail ("none": on no target; the    *)
(* first failure ends the chain) and on the thunks of the hooks in         *)
(* e.thunkFail.                                                            *)
(***************************************************************************)
HookEnv(e, h) ==
    [ protectOk |-> e.protectFail # h, thunkOk |-> h \notin e.thunkFail ]

(***************************************************************************)
(* The && chain of SteamFilter, filter.cpp:755-761: attach in order, stop  *)
(* at the first attach that reports failure.  Every attach touches only    *)
(* its own record and window.  img tells which names the library exports.  *)
(***************************************************************************)
attachMerge(H, M, A, stop) ==
    [ hk  |-> [ h \in Hooks |->
                  IF h \in Upto(AttachOrder, stop) THEN A[h].rec ELSE H[h] ],
      mem |-> [ h \in Hooks |->
                  IF h \in Upto(AttachOrder, stop) THEN A[h].mem ELSE M[h] ],
      ok  |-> stop > Len(AttachOrder) ]

attachEach(H, M, A) ==
    attachMerge(H, M, A,
        FirstOf({ i \in DOMAIN AttachOrder : ~ A[AttachOrder[i]].ok },
                Len(AttachOrder)))

attachChain(H, M, img, e) ==
    attachEach(H, M,
        [ h \in Attached6 |->
            attachByName(H[h], M[h], h, img[h] # "missing", HookEnv(e, h)) ])

VARIABLES
    image,        \* what the target library holds for every hooked name
    ws2,          \* the target library: "absent", "loaded" or "unloaded"
    mem,          \* the code window of every export
    hk,           \* the seven global hook records
    rules,        \* g_rules, as the sequence of rule texts
    g_instance,   \* the HMODULE recorded for unloading, 0 when none
    pinAcquired,  \* references taken on this module by GetModuleHandleExW
    pinReleased,  \* references given back by FreeLibrary
    attempts,     \* SteamFilter calls that went into the wait loop so far
    pc,           \* the installing thread: "idle" or "waiting" (the poll loop)
    arg,          \* the address argument of the SteamFilter call in progress
    ret,          \* the entry point that returned last, and what it returned
    proc,         \* "running", "detached" (after process detach) or "crashed"
    g_meter,      \* the Meter object: its lock and its counters
    clock,        \* what GetTickCount returns
    thr,          \* the threads inside Meter::operator +=, and their locals
    counted,      \* the byte counts passed to operator += calls that returned
    call,         \* the hooked call the host made last, and what became of it
    patch,        \* the ApiHook::attach call in progress, store by store
    second        \* a second thread: a caller of a hooked function that is
                  \* on its way through the patched code, or a second caller
                  \* of SteamFilter

\* the state of the installer and of the patched library
life == << image, ws2, mem, hk, rules, g_instance, pinAcquired, pinReleased,
           attempts, pc, arg, ret, proc >>

\* the state of the hooked traffic and of the meter
traffic == << g_meter, clock, thr, counted, call >>

vars == << image, ws2, mem, hk, rules, g_instance, pinAcquired, pinReleased,
           attempts, pc, arg, ret, proc, g_meter, clock, thr, counted, call,
           patch, second >>

\* inet_addr, never attached, is the export the source names as lacking the
\* patch NOP
Images ==
    { img \in [ Hooks -> Shapes ] :
        /\ img["inet_addr"] = "push"
        /\ Cardinality({ h \in Attached6 : img[h] # "nop" }) <= MaxOddExports }

Pristine(h) == ShapeBytes(image[h])

Returned(op, a, v, raised) ==
    [ op |-> op, arg |-> a, val |-> v, raised |-> raised ]

(***************************************************************************)
(* class Meter.  m_lock is 0 when the critical section is free, else the   *)
(* thread that owns it.  Byte counts stay far below 2^31 in this model, so *)
(* the unsigned long window counter never wraps.                           *)
(***************************************************************************)
\* Meter::Meter, constructed while GetTickCount reads `now'
NewMeter(now) ==
    [ m_lock |-> 0, m_now |-> now, m_currentBytes |-> 0, m_last |-> 0,
      m_total |-> 0 ]

\* Meter::newTick as it would be without the reset of the window counter
newTickNoReset(m, now) ==
    IF now = m.m_now THEN m
    ELSE [ m EXCEPT !.m_total = @ + m.m_currentBytes,
                    !.m_last = m.m_now,
                    !.m_now = now ]

\* Meter::newTick.  delta = now - m_now is unsigned, so delta < 1 holds
\* exactly when the two tick counts are equal.
newTick(m, now) ==
    IF now = m.m_now THEN m
    ELSE [ m EXCEPT !.m_total = @ + m.m_currentBytes,
                    !.m_currentBytes = 0,
                    !.m_last = m.m_now,
                    !.m_now = now ]

\* if (bytes == SOCKET_ERROR) bytes = 0
Counted(bytes) == IF bytes = SOCKET_ERROR THEN 0 ELSE bytes

\* m_currentBytes += bytes
addBytes(m, bytes) == [ m EXCEPT !.m_currentBytes = @ + bytes ]

\* Meter::operator += run from EnterCriticalSection to LeaveCriticalSection
\* by a thread that finds the lock free
MeterAdd(m, bytes, now) == addBytes(newTick(m, now), Counted(bytes))

MeterThreads == 1 .. MaxThreads

\* a thread that is not inside operator +=: pc is where the thread is, arg
\* the value passed, bytes the parameter after the test for SOCKET_ERROR,
\* acc the value of m_currentBytes it has loaded
Outside == [ pc |-> "idle", arg |-> 0, bytes |-> 0, acc |-> 0 ]

\* no operator += call has been made
NoneCounted == [ started |-> 0, bytes |-> 0 ]

\* the host has made no hooked call
NoCall ==
    [ api |-> "none", args |-> << >>, decision |-> << >>, orig |-> 0,
      forward |-> << >>, invoked |-> << >>, error |-> 0, result |-> 0,
      out |-> << >>, metered |-> << >>, raised |-> FALSE ]

\* no attach is in progress
NoPatch == [ h |-> "none", step |-> 0 ]

\* no second thread is at work
NoSecond == [ pc |-> "outside", h |-> "none" ]

\* nothing but the installer has run
Quiet ==
    /\ g_meter = NewMeter(0)
    /\ clock = 0
    /\ thr = [ t \in MeterThreads |-> Outside ]
    /\ counted = NoneCounted
    /\ call = NoCall
    /\ patch = NoPatch
    /\ second = NoSecond

Init ==
    /\ image \in Images
    /\ ws2 = "absent"
    /\ mem = [ h \in Hooks |-> ShapeBytes(image[h]) ]
    /\ hk = [ h \in Hooks |-> NewHook ]
    /\ rules = << >>
    /\ g_instance = 0
    /\ pinAcquired = 0
    /\ pinReleased = 0
    /\ attempts = 0
    /\ pc = "idle"
    /\ arg = ""
    /\ ret = Returned("none", "", 0, FALSE)
    /\ proc = "running"
    /\ Quiet

(***************************************************************************)
(* SteamFilter, the re-bind path (filter.cpp:735-736).                     *)
(***************************************************************************)
\* the re-bind test as it would be with the wrong record named: the
\* inet_addr hook, which is never attached
AlreadyHookedWrongRecord == hk["inet_addr"].m_resume # 0

\* g_connectResume != 0, filter.cpp:735
AlreadyHooked == hk["connect"].m_resume # 0

SteamFilterRebind(address) == setFilter(rules, address)

(***************************************************************************)
(* SteamFilter after the wait loop (filter.cpp:752-780): configure (the    *)
(* result of setFilter is dropped), run the attach chain, roll back or     *)
(* pin.  The library was just seen loaded, so the rollback writes to       *)
(* mapped memory.                                                          *)
(***************************************************************************)
installRollback(sf, u) ==
    [ rules |-> sf.rules, hk |-> u.hk, mem |-> u.mem,
      g_instance |-> g_instance, pinAcquired |-> pinAcquired,
      val |-> HookFailure ]

installPin(sf, c) ==
    [ rules |-> sf.rules, hk |-> c.hk, mem |-> c.mem,
      g_instance |-> ThisModule, pinAcquired |-> pinAcquired + 1,
      val |-> 1 ]

installFinish(sf, c) ==
    IF ~ c.ok THEN installRollback(sf, unhookAll(c.hk, c.mem, TRUE))
    ELSE installPin(sf, c)

SteamFilterInstall(address, e) ==
    installFinish(setFilter(rules, address), attachChain(hk, mem, image, e))

(***************************************************************************)
(* FilterUnload.  `raised' says an access violation left the function      *)
(* through removeHook, before FreeLibrary and the reset of g_instance.     *)
(***************************************************************************)
unloadFinish(r) ==
    IF r.fault
      THEN [ hk |-> r.hk, mem |-> r.mem, g_instance |-> g_instance,
             pinReleased |-> pinReleased, val |-> 0, raised |-> TRUE ]
    ELSE [ hk |-> r.hk, mem |-> r.mem, g_instance |-> 0,
           pinReleased |-> pinReleased + 1, val |-> 1, raised |-> FALSE ]

FilterUnload ==
    IF g_instance = 0
      THEN [ hk |-> hk, mem |-> mem, g_instance |-> g_instance,
             pinReleased |-> pinReleased, val |-> 0, raised |-> FALSE ]
    ELSE unloadFinish(removeHook(hk, mem, ws2 = "loaded"))

(***************************************************************************)
(* DllMain.  Only DLL_PROCESS_DETACH does anything: removeHook.            *)
(***************************************************************************)
Reasons == { "DLL_PROCESS_ATTACH", "DLL_THREAD_ATTACH", "DLL_THREAD_DETACH",
             "DLL_PROCESS_DETACH" }

\* DllMain as it would be without the test of the reason
DllMainAnyReason(reason) == removeHook(hk, mem, ws2 = "loaded")

DllMain(reason) ==
    IF reason # "DLL_PROCESS_DETACH"
      THEN [ hk |-> hk, mem |-> mem, fault |-> FALSE ]
    ELSE removeHook(hk, mem, ws2 = "loaded")

(***************************************************************************)
(* The answers VirtualProtect may give during one attach chain.            *)
(***************************************************************************)
ChainEnvs ==
    { [ protectFail |-> f, thunkFail |-> T ] :
        f \in Attached6 \cup { "none" },
        T \in SUBSET { h \in Attached6 : image[h] = "push" } }

(***************************************************************************)
(* Actions.  The entry points are called by the injection shim, DllMain by *)
(* the loader; the host process loads and unloads the target library.      *)
(***************************************************************************)

\* SteamFilter (address) while the connect hook is present: re-bind only
InstallRebind(a) ==
    /\ proc = "running"
    /\ pc = "idle"
    /\ AlreadyHooked
    /\ \E s \in { SteamFilterRebind(a) } :
         /\ rules' = s.rules
         /\ ret' = Returned("SteamFilter", a, s.result, FALSE)
    /\ UNCHANGED << image, ws2, mem, hk, g_instance, pinAcquired, pinReleased,
                    attempts, pc, arg, proc >>
    /\ UNCHANGED << traffic, patch, second >>

\* SteamFilter (address) while the connect hook is absent: enter the wait loop
InstallEnter(a) ==
    /\ proc = "running"
    /\ pc = "idle"
    /\ ~ AlreadyHooked
    /\ attempts < MaxAttempts
    /\ attempts' = attempts + 1
    /\ pc' = "waiting"
    /\ arg' = a
    /\ UNCHANGED << image, ws2, mem, hk, rules, g_instance, pinAcquired,
                    pinReleased, ret, proc >>
    /\ UNCHANGED << traffic, patch, second >>

\* the wait loop as it would be with a time limit: it gives up while the
\* library is not there
InstallSleepTimeout ==
    /\ proc = "running"
    /\ pc = "waiting"
    /\ ws2 # "loaded"
    /\ pc' = "idle"
    /\ arg' = ""
    /\ ret' = Returned("SteamFilter", arg, HookFailure, FALSE)
    /\ UNCHANGED << image, ws2, mem, hk, rules, g_instance, pinAcquired,
                    pinReleased, attempts, proc >>
    /\ UNCHANGED << traffic, patch, second >>

\* one round of the wait loop with the library not there: Sleep (1000)
InstallSleep ==
    /\ proc = "running"
    /\ pc = "waiting"
    /\ ws2 # "loaded"
    /\ UNCHANGED vars

\* the wait loop sees the library: configure, attach, roll back or pin, return
InstallAttach ==
    /\ proc = "running"
    /\ pc = "waiting"
    /\ ws2 = "loaded"
    /\ \E e \in ChainEnvs :
         \E s \in { SteamFilterInstall(arg, e) } :
           /\ rules' = s.rules
           /\ hk' = s.hk
           /\ mem' = s.mem
           /\ g_instance' = s.g_instance
           /\ pinAcquired' = s.pinAcquired
           /\ ret' = Returned("SteamFilter", arg, s.val, FALSE)
    /\ pc' = "idle"
    /\ arg' = ""
    /\ UNCHANGED << image, ws2, pinReleased, attempts, proc >>
    /\ UNCHANGED << traffic, patch, second >>

\* FilterUnload () returning to its caller
Unload ==
    /\ proc = "running"
    /\ \E u \in { FilterUnload } :
         /\ ~ u.raised
         /\ hk' = u.hk
         /\ mem' = u.mem
         /\ g_instance' = u.g_instance
         /\ pinReleased' = u.pinReleased
         /\ ret' = Returned("FilterUnload", "", u.val, FALSE)
    /\ UNCHANGED << image, ws2, rules, pinAcquired, attempts, pc, arg, proc >>
    /\ UNCHANGED << traffic, patch, second >>

\* FilterUnload () left by an access violation that a frame of the caller
\* handles: the __finally block has run during the unwinding
UnloadRaise ==
    /\ proc = "running"
    /\ \E u \in { FilterUnload } :
         /\ u.raised
         /\ hk' = u.hk
         /\ mem' = u.mem
         /\ g_instance' = u.g_instance
         /\ pinReleased' = u.pinReleased
         /\ ret' = Returned("FilterUnload", "", u.val, TRUE)
    /\ UNCHANGED << image, ws2, rules, pinAcquired, attempts, pc, arg, proc >>
    /\ UNCHANGED << traffic, patch, second >>

\* FilterUnload () left by an access violation that no frame handles: the
\* process ends before anything is unwound
UnloadCrash ==
    /\ proc = "running"
    /\ FilterUnload.raised
    /\ proc' = "crashed"
    /\ UNCHANGED << image, ws2, mem, hk, rules, g_instance, pinAcquired,
                    pinReleased, attempts, pc, arg, ret >>
    /\ UNCHANGED << traffic, patch, second >>

\* DllMain (DLL_PROCESS_DETACH): the module is going away, nothing of it
\* runs afterwards.  The function ends without a return statement; the
\* loader ignores what a detach notification returns, so no value is kept.
Teardown ==
    /\ proc = "running"
    /\ \E d \in { DllMain("DLL_PROCESS_DETACH") } :
         /\ ~ d.fault
         /\ hk' = d.hk
         /\ mem' = d.mem
    /\ proc' = "detached"
    /\ UNCHANGED << image, ws2, rules, g_instance, pinAcquired, pinReleased,
                    attempts, pc, arg, ret >>
    /\ UNCHANGED << traffic, patch, second >>

\* DllMain (DLL_PROCESS_DETACH) left by an access violation that the loader
\* handles
TeardownRaise ==
    /\ proc = "running"
    /\ \E d \in { DllMain("DLL_PROCESS_DETACH") } :
         /\ d.fault
         /\ hk' = d.hk
         /\ mem' = d.mem
    /\ ret' = Returned("DllMain", "DLL_PROCESS_DETACH", 0, TRUE)
    /\ proc' = "detached"
    /\ UNCHANGED << image, ws2, rules, g_instance, pinAcquired, pinReleased,
                    attempts, pc, arg >>
    /\ UNCHANGED << traffic, patch, second >>

\* DllMain (DLL_PROCESS_DETACH) left by an access violation nobody handles
TeardownCrash ==
    /\ proc = "running"
    /\ DllMain("DLL_PROCESS_DETACH").fault
    /\ proc' = "crashed"
    /\ UNCHANGED << image, ws2, mem, hk, rules, g_instance, pinAcquired,
                    pinReleased, attempts, pc, arg, ret >>
    /\ UNCHANGED << traffic, patch, second >>

\* DllMain with any other reason: return TRUE, which the loader ignores but
\* for DLL_PROCESS_ATTACH
Notify(reason) ==
    /\ proc = "running"
    /\ reason # "DLL_PROCESS_DETACH"
    /\ \E d \in { DllMain(reason) } :
         /\ ~ d.fault
         /\ hk' = d.hk
         /\ mem' = d.mem
    /\ UNCHANGED << image, ws2, rules, g_instance, pinAcquired, pinReleased,
                    attempts, pc, arg, ret, proc >>
    /\ UNCHANGED << traffic, patch, second >>

\* the host process loads the target library
LoadWs2 ==
    /\ proc = "running"
    /\ ws2 = "absent"
    /\ ws2' = "loaded"
    /\ UNCHANGED << image, mem, hk, rules, g_instance, pinAcquired,
                    pinReleased, attempts, pc, arg, ret, proc >>
    /\ UNCHANGED << traffic, patch, second >>

\* the host process unloads the target library; its code is unmapped
FreeWs2 ==
    /\ proc = "running"
    /\ ws2 = "loaded"
    /\ ws2' = "unloaded"
    /\ UNCHANGED << image, mem, hk, rules, g_instance, pinAcquired,
                    pinReleased, attempts, pc, arg, ret, proc >>
    /\ UNCHANGED << traffic, patch, second >>

Next ==
    \/ \E a \in AddrSpecs : InstallRebind(a)
    \/ \E a \in AddrSpecs : InstallEnter(a)
    \/ InstallSleep
    \/ InstallAttach
    \/ Unload
    \/ UnloadRaise
    \/ UnloadCrash
    \/ Teardown
    \/ TeardownRaise
    \/ TeardownCrash
    \/ \E reason \in Reasons : Notify(reason)
    \/ LoadWs2
    \/ FreeWs2

Spec == Init /\ [][Next]_vars

(***************************************************************************)
(* How the processor runs the patched code.  Addresses and displacements   *)
(* are 32-bit patterns, given as integers in -2^31 .. 2^31 - 1; Wrap32 is  *)
(* their sum modulo 2^32.                                                  *)
(***************************************************************************)
Wrap32(a, b) ==
    IF a >= 0 /\ b >= 0 /\ a > 2147483647 - b
      THEN (((a - 1073741824) + (b - 1073741824)) - 1073741824) - 1073741824
    ELSE IF a < 0 /\ b < 0 /\ a < (-2147483647 - 1) - b
      THEN (((a + 1073741824) + (b + 1073741824)) + 1073741824) + 1073741824
    ELSE a + b

\* the value writeOffset stored in four bytes, read back as a displacement
Decode32(b) ==
    b[1] + 256 * b[2] + 65536 * b[3]
      + 16777216 * (IF b[4] >= 128 THEN b[4] - 256 ELSE b[4])

\* the displacement byte of a short jump
Signed8(b) == IF b >= 128 THEN b - 256 ELSE b

\* Where a thread that starts to execute at the entry point arrives, m being
\* the window at `entry': at the entry itself when no jump stands there,
\* else where the short jump leads, and on from there when it leads to a
\* long jump at entry - 5.
Follow(m, entry) ==
    IF m[6] # JMP_SHORT THEN entry
    ELSE IF Signed8(m[7]) = -7 /\ m[1] = JMP_LONG
      THEN Wrap32(entry, Decode32(SubSeq(m, 2, 5)))
    ELSE entry + 2 + Signed8(m[7])

\* the hook function of h is what a call of the export h runs
Live(h) == Follow(mem[h], TargetAddr(h)) = DetourAddr(h)

\* Where a call through m_resume of record r arrives in the code of the
\* target: 0 when the pointer is null, past the thunk's jump when it points
\* to m_thunk, else where it points.
ThunkLanding(r, at) ==
    IF r.m_thunk[3] = JMP_LONG
      THEN Wrap32(at + 7, Decode32(SubSeq(r.m_thunk, 4, 7)))
    ELSE at + 2

Resume(r, h) ==
    IF r.m_resume = ThunkAddr(h) THEN ThunkLanding(r, ThunkAddr(h))
    ELSE r.m_resume

\* a call through * g_xResume runs the function as it was before the patch:
\* it arrives behind the first instruction, which either was the two-byte
\* NOP or has been run from the thunk
ReachesOriginal(h) ==
    /\ hk[h].m_resume # 0
    /\ Resume(hk[h], h) = TargetAddr(h) + 2
    /\ hk[h].m_resume = ThunkAddr(h) =>
         SubSeq(hk[h].m_thunk, 1, 2) = SubSeq(Pristine(h), 6, 7)

(***************************************************************************)
(* The rule engine's answer to match (): whether a rule matched, and the   *)
(* replacement it left in * replace (null: none).                          *)
(***************************************************************************)
NullReplace == [ null |-> TRUE, sin_port |-> 0, sin_addr |-> 0 ]

Replacements ==
    [ null : { FALSE }, sin_port : { 0, 8080 },
      sin_addr : { INADDR_ANY, INADDR_NONE, 167772165 } ]

NoMatch == [ matched |-> FALSE, replace |-> NullReplace ]

Decisions ==
    { NoMatch } \cup
    { [ matched |-> TRUE, replace |-> r ] : r \in Replacements \cup { NullReplace } }

(***************************************************************************)
(* What the host passes to the hooked calls.                               *)
(***************************************************************************)
Sockets == { 7 }

\* a sockaddr and its length: an IPv4 destination, and an IPv6 one
\* (family 23, AF_INET6)
CallerNames ==
    { [ sa_family |-> AF_INET, sin_port |-> 443, sin_addr |-> 167772161,
        len |-> 16 ],
      [ sa_family |-> 23, sin_port |-> 443, sin_addr |-> 0,
        len |-> 28 ] }

HostNames == { "example.test" }

(***************************************************************************)
(* The handlers yield what they did: the calls made through the resume     *)
(* pointer (forward), the error set with SetLastError (0: none), the value *)
(* returned, (out) the caller's structure after the call or the structure  *)
(* the result points to, and (metered) the values passed to g_meter +=.    *)
(* orig is what the original function answers when called.                 *)
(***************************************************************************)
Handled(api, args, d, orig, forward, error, result, out) ==
    [ api |-> api, args |-> args, decision |-> d, orig |-> orig,
      forward |-> forward, invoked |-> << >>, error |-> error,
      result |-> result, out |-> out, metered |-> << >>, raised |-> FALSE ]

\* replace == 0 || replace->sin_addr.S_un.S_addr == INADDR_NONE, with the
\* null test dropped
DeniedUnlessNull(r) == r.sin_addr = INADDR_NONE

\* replace == 0 || replace->sin_addr.S_un.S_addr == INADDR_NONE
Denied(r) == r.null \/ r.sin_addr = INADDR_NONE

\* the temporary sockaddr_in of connectHook
connectTemp(base, replace) ==
    [ sa_family |-> base.sa_family,
      sin_port |-> IF replace.sin_port # 0 THEN replace.sin_port
                   ELSE base.sin_port,
      sin_addr |-> IF replace.sin_addr # 0 THEN replace.sin_addr
                   ELSE base.sin_addr,
      len |-> 16 ]

connectHook(s, name, namelen, d, orig) ==
    IF name.sa_family # AF_INET \/ ~ d.matched
      THEN Handled("connect", << s, name, namelen >>, d, orig,
                   << [ s |-> s, name |-> name, at |-> "caller",
                        namelen |-> namelen ] >>,
                   0, orig, name)
    ELSE IF Denied(d.replace)
      THEN Handled("connect", << s, name, namelen >>, d, orig,
                   << >>, WSAECONNREFUSED, SOCKET_ERROR, name)
    ELSE Handled("connect", << s, name, namelen >>, d, orig,
                 << [ s |-> s, name |-> connectTemp(name, d.replace),
                      at |-> "temp", namelen |-> 16 ] >>,
                 0, orig, name)

\* the static hostent of gethostHook with its one-entry address list
gethostResult(replace) ==
    [ h_addrtype |-> AF_INET, h_addr_list |-> << replace.sin_addr >>,
      h_aliases |-> 0, h_length |-> 4, h_name |-> "remapped.local" ]

gethostHook(name, d, orig) ==
    IF ~ d.matched \/ (~ d.replace.null /\ d.replace.sin_addr = INADDR_ANY)
      THEN Handled("gethostbyname", << name >>, d, orig,
                   << [ name |-> name ] >>, 0, orig, << >>)
    ELSE IF Denied(d.replace)
      THEN Handled("gethostbyname", << name >>, d, orig,
                   << >>, WSAHOST_NOT_FOUND, 0, << >>)
    ELSE Handled("gethostbyname", << name >>, d, orig,
                 << >>, 0, 1, gethostResult(d.replace))

(***************************************************************************)
(* The metering handlers.  The flags argument of WSARecv is a pointer, as  *)
(* WSARecv demands never null.  The original recv and recvfrom answer with *)
(* a byte count or SOCKET_ERROR; the original WSARecv answers with its     *)
(* result, the count stored in * received and the InternalHigh field of    *)
(* the overlapped block.                                                   *)
(***************************************************************************)
Metering(c, counts) == [ c EXCEPT !.metered = counts ]

\* (flags & MSG_PEEK) != 0
Peek(flags) == (flags \div MSG_PEEK) % 2 = 1

FlagWords == { 0, MSG_PEEK }

FlagPointers == { [ null |-> FALSE, word |-> w ] : w \in FlagWords }

RecvAnswers == { SOCKET_ERROR } \cup (0 .. MaxBytes)

\* immediate success with n bytes, or SOCKET_ERROR (an error, or the
\* operation is pending) with whatever the block held before
WsaRecvAnswers ==
    { [ result |-> 0, received |-> n, InternalHigh |-> n ] : n \in 0 .. MaxBytes }
      \cup
    { [ result |-> SOCKET_ERROR, received |-> 0, InternalHigh |-> k ] :
        k \in { 0, MaxBytes } }

recvHook(s, len, flags, orig) ==
    Metering(Handled("recv", << s, len, flags >>, << >>, orig,
                     << [ s |-> s, len |-> len, flags |-> flags ] >>,
                     0, orig, << >>),
             << orig >>)

recvfromHook(s, len, flags, orig) ==
    Metering(Handled("recvfrom", << s, len, flags >>, << >>, orig,
                     << [ s |-> s, len |-> len, flags |-> flags ] >>,
                     0, orig, << >>),
             << orig >>)

\* the metering of an asynchronous WSARecv as it would be without the test
\* of the overlapped pointer
wsaRecvAsyncAnyBlock(overlapped, orig) ==
    IF orig.result = 0 THEN << orig.InternalHigh >> ELSE << >>

\* the metering of wsaRecvHook with an overlapped block or a completion
\* routine, filter.cpp:460-467
wsaRecvAsync(overlapped, orig) ==
    IF orig.result = 0 /\ overlapped # 0 THEN << orig.InternalHigh >>
    ELSE << >>

\* the metering of wsaRecvHook with neither, filter.cpp:471-478
wsaRecvSync(flags, orig) ==
    IF orig.result # SOCKET_ERROR /\ ~ (~ flags.null /\ Peek(flags.word))
      THEN << orig.received >>
    ELSE << >>

wsaRecvHook(s, flags, overlapped, handler, orig) ==
    Metering(Handled("WSARecv", << s, flags, overlapped, handler >>, << >>,
                     orig,
                     << [ s |-> s, flags |-> flags, overlapped |-> overlapped,
                          handler |-> handler ] >>,
                     0, orig.result, << >>),
             IF overlapped # 0 \/ handler # 0
               THEN wsaRecvAsync(overlapped, orig)
             ELSE wsaRecvSync(flags, orig))

(***************************************************************************)
(* What becomes of a handler's call through the resume pointer of h.  When *)
(* the pointer leads into the original function the call is an invocation  *)
(* of it.  When it is null or leads elsewhere the thread faults there and  *)
(* the handler never gets control back: the fault unwinds into the host,   *)
(* which handles it or dies.                                               *)
(***************************************************************************)
Arrive(h, c) ==
    IF c.forward = << >> \/ ReachesOriginal(h)
      THEN [ c EXCEPT !.invoked = c.forward ]
    ELSE [ c EXCEPT !.result = 0, !.metered = << >>, !.raised = TRUE ]

(***************************************************************************)
(* The hooked traffic starts in a state a first SteamFilter call left      *)
(* with status 1: the library loaded, the attach chain run to its end, the *)
(* module pinned.  Only the exports in `odd' may lack the two-byte NOP:    *)
(* the exports whose handlers the traffic at hand calls.                   *)
(***************************************************************************)
Installed1(odd) ==
    /\ image \in Images
    /\ \A h \in Attached6 \ odd : image[h] = "nop"
    /\ ws2 = "loaded"
    /\ \E e \in ChainEnvs :
         \E s \in { attachChain([ h \in Hooks |-> NewHook ],
                                [ h \in Hooks |-> ShapeBytes(image[h]) ],
                                image, e) } :
           /\ s.ok
           /\ hk = s.hk
           /\ mem = s.mem
    /\ \E a \in { x \in AddrSpecs : Accepts(x) } :
         /\ rules = setFilter(<< >>, a).rules
         /\ ret = Returned("SteamFilter", a, 1, FALSE)
    /\ g_instance = ThisModule
    /\ pinAcquired = 1
    /\ pinReleased = 0
    /\ attempts = 1
    /\ pc = "idle"
    /\ arg = ""
    /\ proc = "running"
    /\ Quiet

HandlerInit == Installed1({ "connect", "gethostbyname" })

ReceiveInit == Installed1({ "recv", "recvfrom", "WSARecv" })

\* the host calls connect
CallConnect ==
    /\ proc = "running"
    /\ Live("connect")
    /\ \E s \in Sockets, name \in CallerNames, d \in Decisions,
          orig \in { 0, SOCKET_ERROR } :
         call' = Arrive("connect", connectHook(s, name, name.len, d, orig))
    /\ proc' \in IF call'.raised THEN { "running", "crashed" } ELSE { "running" }
    /\ UNCHANGED << image, ws2, mem, hk, rules, g_instance, pinAcquired,
                    pinReleased, attempts, pc, arg, ret >>
    /\ UNCHANGED << g_meter, clock, thr, counted, patch, second >>

\* the host calls gethostbyname
CallGethost ==
    /\ proc = "running"
    /\ Live("gethostbyname")
    /\ \E name \in HostNames, d \in Decisions, orig \in { 0, 2 } :
         call' = Arrive("gethostbyname", gethostHook(name, d, orig))
    /\ proc' \in IF call'.raised THEN { "running", "crashed" } ELSE { "running" }
    /\ UNCHANGED << image, ws2, mem, hk, rules, g_instance, pinAcquired,
                    pinReleased, attempts, pc, arg, ret >>
    /\ UNCHANGED << g_meter, clock, thr, counted, patch, second >>

\* what a returned handler call passed to g_meter +=, run at once: the
\* handlers are here called by one thread at a time
Account ==
    IF call'.metered = << >> THEN UNCHANGED << g_meter, counted >>
    ELSE /\ g_meter' = MeterAdd(g_meter, call'.metered[1], clock)
         /\ counted' = [ started |-> counted.started + 1,
                         bytes |-> counted.bytes + Counted(call'.metered[1]) ]

\* the host calls recv
CallRecv ==
    /\ proc = "running"
    /\ Live("recv")
    /\ counted.started < MaxReceives
    /\ \E s \in Sockets, flags \in FlagWords, orig \in RecvAnswers :
         call' = Arrive("recv", recvHook(s, MaxBytes, flags, orig))
    /\ proc' \in IF call'.raised THEN { "running", "crashed" } ELSE { "running" }
    /\ Account
    /\ UNCHANGED << image, ws2, mem, hk, rules, g_instance, pinAcquired,
                    pinReleased, attempts, pc, arg, ret >>
    /\ UNCHANGED << clock, thr, patch, second >>

\* the host calls recvfrom
CallRecvfrom ==
    /\ proc = "running"
    /\ Live("recvfrom")
    /\ counted.started < MaxReceives
    /\ \E s \in Sockets, flags \in FlagWords, orig \in RecvAnswers :
         call' = Arrive("recvfrom", recvfromHook(s, MaxBytes, flags, orig))
    /\ proc' \in IF call'.raised THEN { "running", "crashed" } ELSE { "running" }
    /\ Account
    /\ UNCHANGED << image, ws2, mem, hk, rules, g_instance, pinAcquired,
                    pinReleased, attempts, pc, arg, ret >>
    /\ UNCHANGED << clock, thr, patch, second >>

\* the host calls WSARecv
CallWsaRecv ==
    /\ proc = "running"
    /\ Live("WSARecv")
    /\ counted.started < MaxReceives
    /\ \E s \in Sockets, flags \in FlagPointers, overlapped \in { 0, 1 },
          handler \in { 0, 1 }, orig \in WsaRecvAnswers :
         call' = Arrive("WSARecv",
                        wsaRecvHook(s, flags, overlapped, handler, orig))
    /\ proc' \in IF call'.raised THEN { "running", "crashed" } ELSE { "running" }
    /\ Account
    /\ UNCHANGED << image, ws2, mem, hk, rules, g_instance, pinAcquired,
                    pinReleased, attempts, pc, arg, ret >>
    /\ UNCHANGED << clock, thr, patch, second >>

\* GetTickCount moves on
Tick ==
    /\ proc = "running"
    /\ clock < MaxTick
    /\ clock' = clock + 1
    /\ UNCHANGED << life, g_meter, thr, counted, call, patch, second >>

HandlerNext ==
    \/ CallConnect
    \/ CallGethost

\* the hooked receive calls and the clock
ReceiveNext ==
    \/ CallRecv
    \/ CallRecvfrom
    \/ CallWsaRecv
    \/ Tick

ReceiveSpec == ReceiveInit /\ [][ReceiveNext]_vars

HandlerSpec == HandlerInit /\ [][HandlerNext]_vars

(***************************************************************************)
(* Meter::operator += called by several threads, step by step: the test of *)
(* the argument, EnterCriticalSection, GetTickCount and newTick, the load  *)
(* and the store of m_currentBytes += bytes, LeaveCriticalSection.         *)
(***************************************************************************)
MeterInit == Installed1({ })

AddInputs == { SOCKET_ERROR } \cup (0 .. MaxBytes)

\* EnterCriticalSection as it would be if it never waited
lockIgnored(m) == TRUE

\* EnterCriticalSection goes on when no thread owns the critical section
lockFree(m) == m.m_lock = 0

\* thread t calls g_meter += bytes, filter.cpp:397-399
AddCall(t, bytes) ==
    /\ proc = "running"
    /\ thr[t].pc = "idle"
    /\ counted.started < MaxAdds
    /\ thr' = [ thr EXCEPT ![t] = [ pc |-> "enter", arg |-> bytes,
                                    bytes |-> Counted(bytes), acc |-> 0 ] ]
    /\ counted' = [ counted EXCEPT !.started = @ + 1 ]
    /\ UNCHANGED << life, g_meter, clock, call, patch, second >>

\* EnterCriticalSection (& m_lock), filter.cpp:401
AddEnter(t) ==
    /\ proc = "running"
    /\ thr[t].pc = "enter"
    /\ lockFree(g_meter)
    /\ g_meter' = [ g_meter EXCEPT !.m_lock = t ]
    /\ thr' = [ thr EXCEPT ![t].pc = "tick" ]
    /\ UNCHANGED << life, clock, counted, call, patch, second >>

\* now = GetTickCount (); newTick (now), filter.cpp:403-404
AddTick(t) ==
    /\ proc = "running"
    /\ thr[t].pc = "tick"
    /\ g_meter' = newTick(g_meter, clock)
    /\ thr' = [ thr EXCEPT ![t].pc = "load" ]
    /\ UNCHANGED << life, clock, counted, call, patch, second >>

\* m_currentBytes += bytes, the load, filter.cpp:406
AddLoad(t) ==
    /\ proc = "running"
    /\ thr[t].pc = "load"
    /\ thr' = [ thr EXCEPT ![t].pc = "store",
                           ![t].acc = g_meter.m_currentBytes ]
    /\ UNCHANGED << life, g_meter, clock, counted, call, patch, second >>

\* m_currentBytes += bytes, the store, filter.cpp:406
AddStore(t) ==
    /\ proc = "running"
    /\ thr[t].pc = "store"
    /\ g_meter' = [ g_meter EXCEPT
                      !.m_currentBytes = thr[t].acc + thr[t].bytes ]
    /\ thr' = [ thr EXCEPT ![t].pc = "leave" ]
    /\ UNCHANGED << life, clock, counted, call, patch, second >>

\* LeaveCriticalSection (& m_lock) and the return, filter.cpp:408-409
AddLeave(t) ==
    /\ proc = "running"
    /\ thr[t].pc = "leave"
    /\ g_meter' = [ g_meter EXCEPT !.m_lock = 0 ]
    /\ thr' = [ thr EXCEPT ![t] = Outside ]
    /\ counted' = [ counted EXCEPT
                      !.bytes = @ + (IF thr[t].arg = SOCKET_ERROR THEN 0
                                     ELSE thr[t].arg) ]
    /\ UNCHANGED << life, clock, call, patch, second >>

MeterNext ==
    \/ \E t \in MeterThreads, bytes \in AddInputs : AddCall(t, bytes)
    \/ \E t \in MeterThreads : AddEnter(t)
    \/ \E t \in MeterThreads : AddTick(t)
    \/ \E t \in MeterThreads : AddLoad(t)
    \/ \E t \in MeterThreads : AddStore(t)
    \/ \E t \in MeterThreads : AddLeave(t)
    \/ Tick

MeterSpec == MeterInit /\ [][MeterNext]_vars

(***************************************************************************)
(* One SteamFilter call after its wait loop, the attach of every export    *)
(* taken store by store while other threads run the code being patched.    *)
(* patch.h is the hook whose attach is running ("none" before the chain,   *)
(* "failed" and "done" after it), patch.step the place inside attach: 1    *)
(* before GetProcAddress, 2 before VirtualProtect on the target, 3 .. 8    *)
(* before each of the six stores.                                          *)
(***************************************************************************)
PatchInit ==
    /\ image \in Images
    /\ ws2 = "loaded"
    /\ mem = [ h \in Hooks |-> ShapeBytes(image[h]) ]
    /\ hk = [ h \in Hooks |-> NewHook ]
    /\ rules = << >>
    /\ g_instance = 0
    /\ pinAcquired = 0
    /\ pinReleased = 0
    /\ attempts = 1
    /\ pc = "waiting"
    /\ arg \in AddrSpecs
    /\ ret = Returned("none", "", 0, FALSE)
    /\ proc = "running"
    /\ Quiet

\* the stores of attach as they would be with the entry point written first
StoreOrderEntryFirst == << { 6, 7 }, { 1 }, { 2 }, { 3 }, { 4 }, { 5 } >>

\* filter.cpp:631-633 and 495-504: the places of the window written by each
\* store, in the order of the stores; the last one is a 16-bit store
StoreOrder == << { 1 }, { 2 }, { 3 }, { 4 }, { 5 }, { 6, 7 } >>

FirstStore == 3
LastStore == FirstStore + Len(StoreOrder) - 1

\* the window after one more store of the patch
StoreInto(m, places, h) ==
    [ i \in 1..8 |->
        IF i \in places
          THEN PatchBytes(m, writeOffset(DetourAddr(h) - TargetAddr(h)))[i]
        ELSE m[i] ]

Place(h) == CHOOSE i \in DOMAIN AttachOrder : AttachOrder[i] = h

\* the && chain goes on with the next attach, or is through
AfterAttach(h) ==
    IF Place(h) = Len(AttachOrder) THEN [ h |-> "done", step |-> 0 ]
    ELSE [ h |-> AttachOrder[Place(h) + 1], step |-> 1 ]

Failed == [ h |-> "failed", step |-> 0 ]

\* attach (hook, lib, name) up to the test of the prologue
attachBegin(r, m, h, exported, vpOk) ==
    IF ~ exported THEN [ rec |-> [ r EXCEPT !.m_resume = 0 ], ok |-> FALSE ]
    ELSE IF ~ Recognised(m)
      THEN [ rec |-> [ attachSave(r, m, TargetAddr(h), DetourAddr(h))
                         EXCEPT !.m_resume = 0 ],
             ok |-> FALSE ]
    ELSE [ rec |-> attachResume(attachSave(r, m, TargetAddr(h), DetourAddr(h)),
                                m, h, TargetAddr(h),
                                [ protectOk |-> TRUE, thunkOk |-> vpOk ]),
           ok |-> TRUE ]

\* GetModuleHandleW has found the library: break, then setFilter (address),
\* filter.cpp:746-752
PatchConfigure ==
    /\ proc = "running"
    /\ pc = "waiting"
    /\ ws2 = "loaded"
    /\ patch = NoPatch
    /\ rules' = setFilter(rules, arg).rules
    /\ patch' = [ h |-> AttachOrder[1], step |-> 1 ]
    /\ UNCHANGED << image, ws2, mem, hk, g_instance, pinAcquired, pinReleased,
                    attempts, pc, arg, ret, proc, traffic, second >>

\* GetProcAddress and attach up to the test of the prologue,
\* filter.cpp:642-651 and 584-613
AttachPrepare(h) ==
    /\ proc = "running"
    /\ patch = [ h |-> h, step |-> 1 ]
    /\ \E vpOk \in BOOLEAN :
         \E b \in { attachBegin(hk[h], mem[h], h, image[h] # "missing", vpOk) } :
           /\ hk' = [ hk EXCEPT ![h] = b.rec ]
           /\ patch' = IF b.ok THEN [ h |-> h, step |-> 2 ] ELSE Failed
    /\ UNCHANGED << image, ws2, mem, rules, g_instance, pinAcquired,
                    pinReleased, attempts, pc, arg, ret, proc, traffic, second >>

\* VirtualProtect (data - 5, 7, ...), filter.cpp:620-622 and 652-659
AttachProtect(h) ==
    /\ proc = "running"
    /\ patch = [ h |-> h, step |-> 2 ]
    /\ \E vpOk \in BOOLEAN :
         /\ hk' = IF vpOk THEN hk ELSE [ hk EXCEPT ![h].m_resume = 0 ]
         /\ patch' = IF vpOk THEN [ h |-> h, step |-> FirstStore ] ELSE Failed
    /\ UNCHANGED << image, ws2, mem, rules, g_instance, pinAcquired,
                    pinReleased, attempts, pc, arg, ret, proc, traffic, second >>

\* one store of filter.cpp:631-633; after the last one attach returns true
AttachStore(h) ==
    /\ proc = "running"
    /\ patch.h = h
    /\ patch.step \in FirstStore .. LastStore
    /\ mem' = [ mem EXCEPT
                  ![h] = StoreInto(@, StoreOrder[patch.step - FirstStore + 1], h) ]
    /\ patch' = IF patch.step = LastStore THEN AfterAttach(h)
                ELSE [ h |-> h, step |-> patch.step + 1 ]
    /\ UNCHANGED << image, ws2, hk, rules, g_instance, pinAcquired,
                    pinReleased, attempts, pc, arg, ret, proc, traffic, second >>

\* unhookAll (); return ~ 0UL, filter.cpp:763-766
PatchRollback ==
    /\ proc = "running"
    /\ patch = Failed
    /\ \E u \in { unhookAll(hk, mem, TRUE) } :
         /\ hk' = u.hk
         /\ mem' = u.mem
    /\ ret' = Returned("SteamFilter", arg, HookFailure, FALSE)
    /\ pc' = "idle"
    /\ arg' = ""
    /\ patch' = NoPatch
    /\ UNCHANGED << image, ws2, rules, g_instance, pinAcquired, pinReleased,
                    attempts, proc, traffic, second >>

\* GetModuleHandleExW; return 1, filter.cpp:776-780
PatchPin ==
    /\ proc = "running"
    /\ patch = [ h |-> "done", step |-> 0 ]
    /\ g_instance' = ThisModule
    /\ pinAcquired' = pinAcquired + 1
    /\ ret' = Returned("SteamFilter", arg, 1, FALSE)
    /\ pc' = "idle"
    /\ arg' = ""
    /\ patch' = NoPatch
    /\ UNCHANGED << image, ws2, mem, hk, rules, pinReleased, attempts, proc,
                    traffic, second >>

PatchNext ==
    \/ PatchConfigure
    \/ \E h \in Attached6 : AttachPrepare(h)
    \/ \E h \in Attached6 : AttachProtect(h)
    \/ \E h \in Attached6 : AttachStore(h)
    \/ PatchRollback
    \/ PatchPin

PatchSpec == PatchInit /\ [][PatchNext]_vars

(***************************************************************************)
(* SteamFilter from its call to its return: the wait loop, and after it    *)
(* the steps of PatchSpec, the host process loading the library and        *)
(* unloading it again while no attach is under way.                        *)
(***************************************************************************)
\* the host process unloads the library while SteamFilter is not patching it
WaitFree == patch = NoPatch /\ FreeWs2

\* the steps of the thread that is inside SteamFilter
InstallStep ==
    \/ PatchConfigure
    \/ \E h \in Attached6 : AttachPrepare(h)
    \/ \E h \in Attached6 : AttachProtect(h)
    \/ \E h \in Attached6 : AttachStore(h)
    \/ PatchRollback
    \/ PatchPin

WaitNext ==
    \/ \E a \in AddrSpecs : InstallEnter(a)
    \/ InstallSleep
    \/ InstallStep
    \/ LoadWs2
    \/ WaitFree

\* the thread inside SteamFilter keeps being scheduled: it does not stay in
\* Sleep (1000) for ever when GetModuleHandleW would find the library
WaitSpec == Init /\ [][WaitNext]_vars /\ WF_vars(InstallStep)

(***************************************************************************)
(* FilterUnload or the process-detach notification on one thread, taken    *)
(* store by store, while a second thread calls a hooked export and runs    *)
(* through the patched code.  patch.h is the record unhookAll has come to, *)
(* patch.step is 0 before the test of m_resume, 1 .. 7 before the copy of  *)
(* that byte of m_save, 8 before the __finally block.  memcpy is taken to  *)
(* copy byte by byte from the lowest address up.  pc is "unloading" inside *)
(* FilterUnload and "teardown" inside DllMain.  The library stays loaded.  *)
(***************************************************************************)
UnhookInit == Installed1({ "recv" })

SavedBytes == 7

\* unhookAll goes on with the next record, or is through
AfterUnhook(h) ==
    IF Slot(h) = Len(UnhookOrder) THEN [ h |-> "done", step |-> 0 ]
    ELSE [ h |-> UnhookOrder[Slot(h) + 1], step |-> 0 ]

\* where removeHook starts: nowhere when the connect hook is absent
removeHookStart ==
    IF hk["connect"].m_resume = 0 THEN [ h |-> "done", step |-> 0 ]
    ELSE [ h |-> UnhookOrder[1], step |-> 0 ]

\* FilterUnload is called and gets past its test of g_instance
UnloadEnter ==
    /\ proc = "running"
    /\ pc = "idle"
    /\ patch = NoPatch
    /\ g_instance # 0
    /\ pc' = "unloading"
    /\ patch' = removeHookStart
    /\ UNCHANGED << image, ws2, mem, hk, rules, g_instance, pinAcquired,
                    pinReleased, attempts, arg, ret, proc, traffic, second >>

\* the loader calls DllMain (DLL_PROCESS_DETACH)
TeardownEnter ==
    /\ proc = "running"
    /\ pc = "idle"
    /\ patch = NoPatch
    /\ pc' = "teardown"
    /\ patch' = removeHookStart
    /\ UNCHANGED << image, ws2, mem, hk, rules, g_instance, pinAcquired,
                    pinReleased, attempts, arg, ret, proc, traffic, second >>

\* if (m_resume == 0) return, filter.cpp:673-674
UnhookTest(h) ==
    /\ proc = "running"
    /\ patch = [ h |-> h, step |-> 0 ]
    /\ patch' = IF hk[h].m_resume = 0 THEN AfterUnhook(h)
                ELSE [ h |-> h, step |-> 1 ]
    /\ UNCHANGED << life, traffic, second >>

\* one byte of memcpy (m_original - 5, m_save, 7), filter.cpp:677
UnhookCopy(h) ==
    /\ proc = "running"
    /\ patch.h = h
    /\ patch.step \in 1 .. SavedBytes
    /\ mem' = [ mem EXCEPT ![h][patch.step] = hk[h].m_save[patch.step] ]
    /\ patch' = [ h |-> h, step |-> patch.step + 1 ]
    /\ UNCHANGED << image, ws2, hk, rules, g_instance, pinAcquired,
                    pinReleased, attempts, pc, arg, ret, proc, traffic,
                    second >>

\* m_original = m_resume = 0, filter.cpp:678-680
UnhookClear(h) ==
    /\ proc = "running"
    /\ patch = [ h |-> h, step |-> SavedBytes + 1 ]
    /\ hk' = [ hk EXCEPT ![h].m_original = 0, ![h].m_resume = 0 ]
    /\ patch' = AfterUnhook(h)
    /\ UNCHANGED << image, ws2, mem, rules, g_instance, pinAcquired,
                    pinReleased, attempts, pc, arg, ret, proc, traffic,
                    second >>

\* FreeLibrary (g_instance); g_instance = 0; return 1, filter.cpp:812-814
UnloadReturn ==
    /\ proc = "running"
    /\ pc = "unloading"
    /\ patch = [ h |-> "done", step |-> 0 ]
    /\ pinReleased' = pinReleased + 1
    /\ g_instance' = 0
    /\ ret' = Returned("FilterUnload", "", 1, FALSE)
    /\ pc' = "idle"
    /\ patch' = NoPatch
    /\ UNCHANGED << image, ws2, mem, hk, rules, pinAcquired, attempts, arg,
                    proc, traffic, second >>

\* DllMain is through with removeHook: the module goes away
TeardownReturn ==
    /\ proc = "running"
    /\ pc = "teardown"
    /\ patch = [ h |-> "done", step |-> 0 ]
    /\ proc' = "detached"
    /\ pc' = "idle"
    /\ patch' = NoPatch
    /\ UNCHANGED << image, ws2, mem, hk, rules, g_instance, pinAcquired,
                    pinReleased, attempts, arg, ret, traffic, second >>

\* the host process calls the export h: the second thread stands at its
\* entry point
CallEnter(h) ==
    /\ proc = "running"
    /\ second = NoSecond
    /\ second' = [ pc |-> "entry", h |-> h ]
    /\ UNCHANGED << life, traffic, patch >>

\* what the two bytes at the entry make of a thread that runs them: the
\* short jump of attach takes it to entry - 5, the first instruction of the
\* library takes it into the function as it was; any other pair of bytes is
\* an instruction that neither the library nor attach has put there
AtEntry(m, pristine) ==
    IF m[6] = JMP_SHORT /\ Signed8(m[7]) = -7 THEN "pad"
    ELSE IF SubSeq(m, 6, 7) = SubSeq(pristine, 6, 7) THEN "original"
    ELSE "astray"

\* what the five bytes before the entry make of a thread that runs them: the
\* long jump of attach takes it to where its displacement leads, five
\* one-byte NOPs take it on to the entry, anything else is run as it stands
AtPad(m, h) ==
    IF m[1] = JMP_LONG
      THEN IF Wrap32(TargetAddr(h), Decode32(SubSeq(m, 2, 5))) = DetourAddr(h)
             THEN "handler"
           ELSE "astray"
    ELSE IF SubSeq(m, 1, 5) = SubSeq(ShapeBytes("nop"), 1, 5) THEN "entry"
    ELSE "astray"

\* (* g_xResume) (...) in a handler, filter.cpp:150-152 and 423: a call
\* through a null pointer is an access violation
AtHandler(h) ==
    IF hk[h].m_resume = 0 THEN "fault"
    ELSE IF ReachesOriginal(h) THEN "original"
    ELSE "astray"

\* the second thread runs the instruction at the entry point
RunEntry ==
    /\ proc = "running"
    /\ second.pc = "entry"
    /\ second' = [ second EXCEPT
                     !.pc = AtEntry(mem[second.h], Pristine(second.h)) ]
    /\ UNCHANGED << life, traffic, patch >>

\* the second thread runs what stands at entry - 5
RunPad ==
    /\ proc = "running"
    /\ second.pc = "pad"
    /\ second' = [ second EXCEPT !.pc = AtPad(mem[second.h], second.h) ]
    /\ UNCHANGED << life, traffic, patch >>

\* the second thread, in the hook function, calls through the resume pointer
RunHandler ==
    /\ proc = "running"
    /\ second.pc = "handler"
    /\ second' = [ second EXCEPT !.pc = AtHandler(second.h) ]
    /\ UNCHANGED << life, traffic, patch >>

\* the function of the library returns, and the call with it
RunOriginal ==
    /\ proc = "running"
    /\ second.pc = "original"
    /\ second' = NoSecond
    /\ UNCHANGED << life, traffic, patch >>

UnhookNext ==
    \/ UnloadEnter
    \/ TeardownEnter
    \/ \E h \in Hooks : UnhookTest(h)
    \/ \E h \in Hooks : UnhookCopy(h)
    \/ \E h \in Hooks : UnhookClear(h)
    \/ UnloadReturn
    \/ TeardownReturn
    \/ \E h \in Attached6 : CallEnter(h)
    \/ RunEntry
    \/ RunPad
    \/ RunHandler
    \/ RunOriginal

UnhookSpec == UnhookInit /\ [][UnhookNext]_vars

(***************************************************************************)
(* Two threads inside SteamFilter at once.  Both have found the connect    *)
(* hook absent and both are in the wait loop, the library being loaded.    *)
(* The first thread takes the steps of PatchSpec; the second thread runs   *)
(* from the wait loop to its return in one step, at any point between two  *)
(* steps of the first: second.pc is "waiting" or "returned".               *)
(***************************************************************************)
\* the answers the two VirtualProtect calls of one attach may give
AttachEnvs == [ protectOk : BOOLEAN, thunkOk : BOOLEAN ]

SecondWaiting == [ pc |-> "waiting", h |-> "none" ]

SecondReturned == [ pc |-> "returned", h |-> "none" ]

TwoInit ==
    /\ image \in Images
    /\ ws2 = "loaded"
    /\ mem = [ h \in Hooks |-> ShapeBytes(image[h]) ]
    /\ hk = [ h \in Hooks |-> NewHook ]
    /\ rules = << >>
    /\ g_instance = 0
    /\ pinAcquired = 0
    /\ pinReleased = 0
    /\ attempts = 2
    /\ pc = "waiting"
    /\ arg \in { a \in AddrSpecs : Accepts(a) }
    /\ ret = Returned("none", "", 0, FALSE)
    /\ proc = "running"
    /\ g_meter = NewMeter(0)
    /\ clock = 0
    /\ thr = [ t \in MeterThreads |-> Outside ]
    /\ counted = NoneCounted
    /\ call = NoCall
    /\ patch = NoPatch
    /\ second = SecondWaiting

\* the second thread leaves the wait loop and runs SteamFilter to its
\* return: configure, attach, roll back or pin
SecondInstall ==
    /\ proc = "running"
    /\ second = SecondWaiting
    /\ ws2 = "loaded"
    /\ \E e \in ChainEnvs :
         \E s \in { SteamFilterInstall(arg, e) } :
           /\ rules' = s.rules
           /\ hk' = s.hk
           /\ mem' = s.mem
           /\ g_instance' = s.g_instance
           /\ pinAcquired' = s.pinAcquired
           /\ ret' = Returned("SteamFilter", arg, s.val, FALSE)
    /\ second' = SecondReturned
    /\ UNCHANGED << image, ws2, pinReleased, attempts, pc, arg, proc,
                    traffic, patch >>

TwoNext ==
    \/ InstallStep
    \/ SecondInstall

TwoSpec == TwoInit /\ [][TwoNext]_vars

(***************************************************************************)
(* Vocabulary of the properties.                                           *)
(***************************************************************************)
\* the window of h once attach has patched pristine code
PatchedCode(h) ==
    PatchBytes(Pristine(h), writeOffset(DetourAddr(h) - TargetAddr(h)))

\* record h is fully installed: resume pointer set, the original bytes saved,
\* the jump chain to the detour live at the target
Installed(h) ==
    /\ hk[h].m_resume # 0
    /\ hk[h].m_save = Pristine(h)
    /\ mem[h] = PatchedCode(h)

\* record h is fully absent: no resume pointer, the target's code unpatched
Absent(h) ==
    /\ hk[h].m_resume = 0
    /\ mem[h] = Pristine(h)

AllAbsent == \A h \in Hooks : Absent(h)

\* a step in which SteamFilter returns from its hook-installing path
InstallReturn == pc = "waiting" /\ pc' = "idle"

\* a step that is a call of FilterUnload, however it ends
UnloadCall == Unload \/ UnloadRaise \/ UnloadCrash


(***************************************************************************)
(* C1.  Round trip: whenever attach on a hooked export reports success,    *)
(* for either recognised prologue and whatever VirtualProtect answered on  *)
(* the thunk, a following unhook leaves every byte of the target's window  *)
(* as it was before attach.                                                *)
(***************************************************************************)
C1_RoundTrip ==
    ws2 = "loaded" =>
      \A h \in Attached6 : \A e \in AttachEnvs :
        \A a \in { attach(hk[h], mem[h], h, TargetAddr(h), DetourAddr(h), e) } :
          (image[h] # "missing" /\ a.ok) =>
            unhook(a.rec, a.mem, TRUE).mem = mem[h]

(***************************************************************************)
(* C2.  While the target library is mapped, every hook record is either    *)
(* fully installed or fully absent; a target is never patched while its    *)
(* record's resume pointer is null.                                        *)
(***************************************************************************)
C2_InstalledOrAbsent ==
    ws2 = "loaded" => \A h \in Hooks : Installed(h) \/ Absent(h)

(***************************************************************************)
(* C3.  When the first SteamFilter call reports that the hooks could not   *)
(* be installed, every target's code is as it was before the call, every   *)
(* resume pointer is null and the module pin has not been taken.           *)
(***************************************************************************)
C3_FailedInstallRollsBack ==
    [][ (InstallReturn /\ attempts = 1 /\ ret'.val = HookFailure) =>
          /\ mem' = mem
          /\ \A h \in Hooks : hk'[h].m_resume = 0
          /\ g_instance' = 0
          /\ pinAcquired' = 0 ]_vars

(***************************************************************************)
(* C4.  While the pin of a successful SteamFilter call is held, a further  *)
(* SteamFilter call attaches nothing: no code byte is written, no saved    *)
(* bytes are overwritten, no second pin is taken.                          *)
(***************************************************************************)
C4_NoSecondAttach ==
    [][ (g_instance # 0 /\ InstallReturn) =>
          /\ mem' = mem
          /\ \A h \in Hooks : hk'[h].m_save = hk[h].m_save
          /\ pinAcquired' = pinAcquired ]_vars

(***************************************************************************)
(* C5.  A FilterUnload call made while the pin is held leaves every record *)
(* absent with the mapped targets' code restored, and releases the pin;    *)
(* the pin is released once per successful SteamFilter, never more often   *)
(* than it was taken.                                                      *)
(***************************************************************************)
C5_UnloadRestoresAll ==
    [][ /\ (g_instance # 0 /\ UnloadCall) =>
            /\ \A h \in Hooks : hk'[h].m_resume = 0
            /\ ws2 = "loaded" => \A h \in Hooks : mem'[h] = Pristine(h)
            /\ g_instance' = 0
            /\ pinReleased' = pinReleased + 1
        /\ pinReleased' <= pinAcquired'
        /\ g_instance' = 0 => pinReleased' = pinAcquired' ]_vars

(***************************************************************************)
(* C6.  FilterUnload is idempotent: a FilterUnload call that follows a     *)
(* FilterUnload call, or that finds no hook installed, changes neither the *)
(* records, nor the code, nor the pin.                                     *)
(***************************************************************************)
C6_UnloadIdempotent ==
    [][ (UnloadCall /\ (ret.op = "FilterUnload" \/ AllAbsent)) =>
          UNCHANGED << hk, mem, g_instance, pinAcquired, pinReleased >> ]_vars

Phase ==
    IF pc = "waiting" THEN "Waiting"
    ELSE IF hk["connect"].m_resume # 0 THEN "Attached"
    ELSE IF attempts = 0 THEN "Unattached"
    ELSE "Removed"

\* the last entry point to return removed the hooks: FilterUnload, or a
\* SteamFilter call that failed to install them
LastRemoved ==
    \/ ret.op = "FilterUnload" /\ ret.val = 1 /\ ~ ret.raised
    \/ ret.op = "SteamFilter" /\ ret.val = HookFailure

C9_RejectedSpecReported ==
    (ret.op = "SteamFilter" /\ ~ Accepts(ret.arg)) => ret.val # 1

(***************************************************************************)
(* C10.  A fault of the restoring write in unhook does not leave unhook:   *)
(* no entry point is left by an access violation and the process is not    *)
(* ended by one.                                                           *)
(***************************************************************************)
C10_RestoreFaultSwallowed ==
    proc # "crashed" /\ ~ ret.raised

(***************************************************************************)
(* The policy handlers.                                                    *)
(***************************************************************************)
\* the last hooked call was connect with an IPv4 destination that a rule
\* matched
ConnectMatched ==
    /\ call.api = "connect"
    /\ call.args[2].sa_family = AF_INET
    /\ call.decision.matched

\* C11: an IPv4 connect that the rule engine matches with no replacement,
\* or with the replacement address INADDR_NONE, makes no call through the
\* resume pointer, sets WSAECONNREFUSED and returns SOCKET_ERROR.
C11_DenyNeverForwards ==
    (/\ ConnectMatched
     /\ \/ call.decision.replace.null
        \/ call.decision.replace.sin_addr = INADDR_NONE)
    => /\ call.forward = << >>
       /\ call.invoked = << >>
       /\ call.error = WSAECONNREFUSED
       /\ call.result = SOCKET_ERROR
       /\ ~ call.raised

\* a connect was refused because the replacement holds the sentinel address
C11_Witness ==
    /\ ConnectMatched
    /\ ~ call.decision.replace.null
    /\ call.decision.replace.sin_addr = INADDR_NONE
    /\ call.result = SOCKET_ERROR
    /\ call.error = WSAECONNREFUSED

\* C12: an IPv4 connect matched by a redirect (ip1, port1) whose address is
\* not INADDR_NONE invokes the original connect exactly once, with the
\* destination (ip1 if ip1 # 0 else ip0, port1 if port1 # 0 else port0) held
\* in a temporary, and leaves the caller's structure as it was.
C12_RedirectComposition ==
    (/\ ConnectMatched
     /\ ~ call.decision.replace.null
     /\ call.decision.replace.sin_addr # INADDR_NONE)
    => /\ call.invoked =
            << [ s |-> call.args[1],
                 name |-> [ sa_family |-> AF_INET,
                            sin_port |->
                              IF call.decision.replace.sin_port # 0
                                THEN call.decision.replace.sin_port
                              ELSE call.args[2].sin_port,
                            sin_addr |->
                              IF call.decision.replace.sin_addr # 0
                                THEN call.decision.replace.sin_addr
                              ELSE call.args[2].sin_addr,
                            len |-> 16 ],
                 at |-> "temp",
                 namelen |-> 16 ] >>
       /\ call.out = call.args[2]

\* C13: a connect whose family is not IPv4, whatever the rule engine would
\* say, and an IPv4 connect that no rule matches, invoke the original connect
\* exactly once with the caller's socket, pointer and length, and return its
\* result.
C13_PassThrough ==
    (/\ call.api = "connect"
     /\ call.args[2].sa_family # AF_INET \/ ~ call.decision.matched)
    => /\ call.invoked =
            << [ s |-> call.args[1], name |-> call.args[2], at |-> "caller",
                 namelen |-> call.args[3] ] >>
       /\ call.result = call.orig
       /\ ~ call.raised

\* the rule engine's answer lets gethostbyname through: no match, or a
\* replacement with the address INADDR_ANY
GethostPasses ==
    \/ ~ call.decision.matched
    \/ ~ call.decision.replace.null /\ call.decision.replace.sin_addr = INADDR_ANY

\* C14: gethostbyname invokes the original resolver, with the caller's name
\* and returning its result, exactly when no rule matches or the replacement
\* address is INADDR_ANY; on a deny match it returns null with
\* WSAHOST_NOT_FOUND; on any other match it returns a synthesized result
\* with exactly the one replacement address; in neither case is the original
\* invoked.
C14_ResolverDispatch ==
    call.api = "gethostbyname" =>
      IF GethostPasses
        THEN /\ call.invoked = << [ name |-> call.args[1] ] >>
             /\ call.result = call.orig
             /\ ~ call.raised
      ELSE /\ call.invoked = << >>
           /\ call.forward = << >>
           /\ IF call.decision.replace.null
                 \/ call.decision.replace.sin_addr = INADDR_NONE
                THEN call.result = 0 /\ call.error = WSAHOST_NOT_FOUND
              ELSE /\ call.result # 0
                   /\ call.out.h_addr_list
                        = << call.decision.replace.sin_addr >>

(***************************************************************************)
(* The metering handlers.                                                  *)
(***************************************************************************)
\* the bytes the meter holds: those of closed windows and of the open one
MeterSum(m) == m.m_total + m.m_currentBytes

\* the step is a call of a hooked function: no other step changes the
\* record of the last call or the count of += calls made
HookedCall == << call, counted >>' # << call, counted >>

\* the last hooked call was a receive call carrying MSG_PEEK
PeekCall ==
    \/ call.api \in { "recv", "recvfrom" } /\ Peek(call.args[3])
    \/ call.api = "WSARecv" /\ Peek(call.args[2].word)

\* C16: a call of recv, recvfrom or WSARecv (with or without an overlapped
\* block) that carries MSG_PEEK is forwarded, and leaves the byte counters
\* of the meter as they were, whatever the original answers.
C16_PeekNotMetered ==
    [][ (HookedCall /\ PeekCall') =>
          /\ call'.forward # << >>
          /\ g_meter'.m_currentBytes = g_meter.m_currentBytes
          /\ g_meter'.m_total = g_meter.m_total ]_vars

AllReturned == \A t \in MeterThreads : thr[t].pc = "idle"

\* C15: when all += calls made by the threads have returned, in whatever
\* order their steps were taken, the cumulative total m_total equals the sum
\* of the byte counts passed in, SOCKET_ERROR counting as zero.
C15_TotalIsSum == AllReturned => g_meter.m_total = counted.bytes

\* C15, amended: when all += calls have returned, the cumulative total plus
\* the bytes of the current window equals the sum of the byte counts passed
\* in, SOCKET_ERROR counting as zero.
C15_TotalPlusWindowIsSum ==
    AllReturned => g_meter.m_total + g_meter.m_currentBytes = counted.bytes

\* all calls have returned, bytes of an earlier window are in the total and
\* bytes of the current window are not
C15_Witness ==
    /\ AllReturned
    /\ counted.started = MaxAdds
    /\ g_meter.m_total > 0
    /\ g_meter.m_currentBytes > 0

(***************************************************************************)
(* attach on a target it cannot hook.                                      *)
(***************************************************************************)
\* the code at the entry of h is neither mov edi, edi nor push imm8
Unrecognised(h) ==
    /\ image[h] # "missing"
    /\ ReadShort(mem[h]) # MOV_EDI_EDI
    /\ mem[h][6] # PUSH_IMM8

\* attach (0, hook) on the record of h
attachNull(h, e) == attach(hk[h], mem[h], h, 0, DetourAddr(h), e)

\* attach (address, hook) on the record of h with the address of its export
attachExport(h, e) == attach(hk[h], mem[h], h, TargetAddr(h), DetourAddr(h), e)

\* C18: attach on a target that starts with neither the two-byte no-op nor
\* push imm8 reports failure, writes no byte of the target and leaves the
\* hook record, absent with a null resume pointer, as it was before the call;
\* attach with a null address reports failure and changes nothing.
C18_FailedAttachChangesNothing ==
    ws2 = "loaded" =>
      \A h \in Attached6 : \A e \in AttachEnvs :
        /\ attachNull(h, e) = [ rec |-> hk[h], mem |-> mem[h], ok |-> FALSE ]
        /\ (Unrecognised(h) /\ hk[h].m_resume = 0) =>
             attachExport(h, e) = [ rec |-> hk[h], mem |-> mem[h], ok |-> FALSE ]

\* C18, amended: attach on a target that starts with neither the two-byte
\* no-op nor push imm8 reports failure, writes no byte of the target, leaves
\* the resume pointer null and the thunk as it was, and has stored the
\* detour, the address and the eight bytes found around the entry in the
\* record; attach with a null address reports failure and changes nothing.
C18_FailedAttachKeepsTarget ==
    ws2 = "loaded" =>
      \A h \in Attached6 : \A e \in AttachEnvs :
        /\ attachNull(h, e) = [ rec |-> hk[h], mem |-> mem[h], ok |-> FALSE ]
        /\ Unrecognised(h) =>
             attachExport(h, e) =
               [ rec |-> [ hk[h] EXCEPT !.m_hook = DetourAddr(h),
                                        !.m_original = TargetAddr(h),
                                        !.m_save = mem[h],
                                        !.m_resume = 0 ],
                 mem |-> mem[h], ok |-> FALSE ]

\* SteamFilter has returned after attach refused an export that starts with
\* push ebp: the record holds the address and the bytes, the code is as it was
C18_Witness ==
    \E h \in Attached6 :
      /\ ws2 = "loaded"
      /\ image[h] = "frame"
      /\ ret.op = "SteamFilter"
      /\ ret.val = HookFailure
      /\ Unrecognised(h)
      /\ mem[h] = Pristine(h)
      /\ hk[h].m_original = TargetAddr(h)
      /\ hk[h].m_save = Pristine(h)
      /\ hk[h].m_resume = 0

(***************************************************************************)
(* The thunk made for an export that starts with push imm8.                *)
(***************************************************************************)
\* the resume pointer of h is the thunk of its record
ThroughThunk(h) == hk[h].m_resume = ThunkAddr(h)

\* C19: when the resume pointer of a record is its thunk, the thunk holds
\* the first two bytes of the target followed by a long jump, and that jump,
\* its displacement taken modulo 2^32 from the end of the jump, arrives at
\* exactly the target's entry + 2.
C19_ThunkLandsBehindPush ==
    ws2 = "loaded" =>
      \A h \in Hooks :
        ThroughThunk(h) =>
          /\ SubSeq(hk[h].m_thunk, 1, 2) = SubSeq(Pristine(h), 6, 7)
          /\ hk[h].m_thunk[3] = JMP_LONG
          /\ ThunkLanding(hk[h], ThunkAddr(h)) = TargetAddr(h) + 2

(***************************************************************************)
(* The order of the stores of attach.                                      *)
(***************************************************************************)
\* the long jump to the hook function of h stands complete before the entry
LongJumpWritten(h) ==
    SubSeq(mem[h], 1, 5) =
      << JMP_LONG >> \o writeOffset(DetourAddr(h) - TargetAddr(h))

\* the two bytes at the entry of h are those of the library
EntryAsLoaded(h) == SubSeq(mem[h], 6, 7) = SubSeq(Pristine(h), 6, 7)

\* C20: in every state during and after attach, the short jump stands at
\* the entry only when the long jump before the entry is complete, and a
\* thread that starts to execute at the entry either runs the two original
\* bytes or arrives at exactly the hook function.
C20_EntryOrDetour ==
    \A h \in Attached6 :
      /\ ~ EntryAsLoaded(h) => LongJumpWritten(h)
      /\ \/ EntryAsLoaded(h) /\ Follow(mem[h], TargetAddr(h)) = TargetAddr(h)
         \/ Follow(mem[h], TargetAddr(h)) = DetourAddr(h)

\* attach stands before its last store: the long jump is complete and the
\* entry still holds the bytes of the library
C20_Witness ==
    \E h \in Attached6 :
      /\ patch = [ h |-> h, step |-> LastStore ]
      /\ LongJumpWritten(h)
      /\ EntryAsLoaded(h)
      /\ image[h] \in { "nop", "push" }

(***************************************************************************)
(* The wait loop of SteamFilter.                                           *)
(***************************************************************************)
\* the first SteamFilter call has not returned
FirstWaiting == pc = "waiting" /\ attempts = 1

\* C21: while the target library is not in the process, the first
\* SteamFilter call stays in its wait loop, attaching nothing and not
\* returning; and when the library is there to stay and the calling thread
\* keeps being scheduled, the call leaves the loop and returns.
C21_WaitsForLibrary ==
    /\ [][ (FirstWaiting /\ ws2 # "loaded") =>
             /\ pc' = "waiting"
             /\ patch' = NoPatch
             /\ ret' = ret
             /\ rules' = rules
             /\ hk' = hk
             /\ mem' = mem ]_vars
    /\ [](FirstWaiting => <>(pc = "idle" \/ ws2 # "loaded"))

\* the first SteamFilter call is still in its loop although the library has
\* been in the process and has left it again
C21_Witness ==
    /\ FirstWaiting
    /\ ws2 = "unloaded"
    /\ patch = NoPatch
    /\ \A h \in Hooks : hk[h].m_resume = 0

(***************************************************************************)
(* One += call under the lock of the meter.                                *)
(***************************************************************************)
\* the threads between EnterCriticalSection and LeaveCriticalSection
InsideLock == { t \in MeterThreads : thr[t].pc \in { "tick", "load", "store", "leave" } }

\* the bytes of the calls that have added to the window and not yet returned
Leaving(t) == IF thr[t].pc # "leave" THEN 0
              ELSE IF thr[t].arg = SOCKET_ERROR THEN 0 ELSE thr[t].arg

RECURSIVE LeavingUpTo(_)
LeavingUpTo(n) == IF n = 0 THEN 0 ELSE Leaving(n) + LeavingUpTo(n - 1)

\* thread t takes the step of += that leads from pc `from' to pc `to'
Moves(t, from, to) == thr[t].pc = from /\ thr'[t].pc = to

\* C22: at most one thread is between acquire and release, and it is the
\* owner of the lock, which is free when no thread is there; newTick, when
\* the tick count differs from the window start, adds the window to the
\* total, resets the window and moves the window start to the tick count,
\* and changes nothing otherwise; the addition adds the byte count, zero
\* for SOCKET_ERROR, to the window and leaves total and window start alone;
\* and at every moment total plus window is the sum of the byte counts of
\* the calls that have made their addition.
C22_AddUnderLock ==
    /\ [](/\ Cardinality(InsideLock) <= 1
          /\ \A t \in InsideLock : g_meter.m_lock = t
          /\ InsideLock = { } => g_meter.m_lock = 0
          /\ MeterSum(g_meter) = counted.bytes + LeavingUpTo(MaxThreads))
    /\ [][ \A t \in MeterThreads :
             /\ Moves(t, "tick", "load") =>
                  IF clock # g_meter.m_now
                    THEN /\ g_meter'.m_total = g_meter.m_total + g_meter.m_currentBytes
                         /\ g_meter'.m_currentBytes = 0
                         /\ g_meter'.m_now = clock
                  ELSE g_meter' = g_meter
             /\ Moves(t, "store", "leave") =>
                  /\ g_meter'.m_currentBytes = g_meter.m_currentBytes
                       + (IF thr[t].arg = SOCKET_ERROR THEN 0 ELSE thr[t].arg)
                  /\ g_meter'.m_total = g_meter.m_total
                  /\ g_meter'.m_now = g_meter.m_now
             /\ Moves(t, "leave", "idle") =>
                  /\ g_meter' = [ g_meter EXCEPT !.m_lock = 0 ]
                  /\ g_meter.m_lock = t ]_vars

\* a thread has rolled the window and added to the new one, and is about to
\* release the lock another thread is waiting for
C22_Witness ==
    \E t \in MeterThreads, u \in MeterThreads :
      /\ thr[t].pc = "leave"
      /\ thr[t].arg > 0
      /\ thr[u].pc = "enter"
      /\ g_meter.m_lock = t
      /\ g_meter.m_total > 0
      /\ g_meter.m_now = clock
      /\ g_meter.m_currentBytes = thr[t].arg

(***************************************************************************)
(* A call of a hooked export while the hooks are being removed.            *)
(***************************************************************************)
\* C23: a thread that enters a hooked export whose code has the two-byte NOP
\* never runs a partly restored jump chain, and when the hook function it
\* has reached calls through the resume pointer, that pointer is not null
\* and leads into the function as it was, also while FilterUnload or the
\* process-detach notification is at work on another thread.
C23_CallSurvivesUnhook ==
    (second.h \in Attached6 /\ image[second.h] = "nop") =>
      second.pc \notin { "astray", "fault" }

(***************************************************************************)
(* Two SteamFilter calls at once.                                          *)
(***************************************************************************)
\* both SteamFilter calls have returned
BothReturned == pc = "idle" /\ second = SecondReturned

\* C24: when two threads are inside SteamFilter at once and every export
\* has the two-byte NOP, the bytes saved in a record that names a target
\* are those the library had there before any patching, the module is
\* pinned at most once, and FilterUnload called after both have returned
\* leaves the code of every export as the library had it.
C24_NoDoubleAttach ==
    (\A h \in Attached6 : image[h] = "nop") =>
      /\ \A h \in Attached6 :
           hk[h].m_original # 0 => hk[h].m_save = Pristine(h)
      /\ pinAcquired <= 1
      /\ (BothReturned /\ g_instance # 0) =>
           \A h \in Attached6 : FilterUnload.mem[h] = Pristine(h)

=============================================================================
